---- MODULE Spec2Model ----
(***************************************************************************)
(* A model of ioutils.py of Groundtruther: the annotation parser           *)
(* (parse_annotation), the layer introspection (get_layer_info) and the    *)
(* export/upload functions built on the vector file writer, OGR and an     *)
(* HTTP endpoint.                                                          *)
(*                                                                         *)
(* Python values are carried with their type: a dict is py_dict(f) with f  *)
(* a function from keys to values, a list is py_list(s) with s a sequence, *)
(* a str that the code builds or edits is py_str(s) with s the sequence    *)
(* of its pieces (characters for an Imagename, the literal and the         *)
(* formatted values for an f-string).  Numbers and the labels the code     *)
(* only passes through (Species, layer names) are plain values.            *)
(***************************************************************************)
EXTENDS Integers, Sequences, FiniteSets, TLC

VARIABLES
    annotation_file,        \* the lines of the CSV source given to parse_annotation
    annotations_by_image,   \* what parse_annotation returned (or raised)
    call,                   \* the export/upload/introspection function called
    layer,                  \* the layer argument (None or a map layer)
    output_path,            \* the output_path argument
    env,                    \* what the collaborators answer during the call
    ret,                    \* what the call returned (or raised)
    disk,                   \* the files that exist: path -> content
    temps,                  \* the paths of the files the call created
    sent,                   \* the POST requests issued, in order
    touched,                \* the layer methods the call invoked
    pc                      \* "ready" before the call, "done" after it

vars == <<annotation_file, annotations_by_image, call, layer, output_path, env,
          ret, disk, temps, sent, touched, pc>>

(***************************************************************************)
(* Bounds of the model.                                                    *)
(***************************************************************************)
MaxRows == 3            \* data rows of an annotation file
MaxPieces == 3          \* pieces an Imagename is assembled from
MaxWriterError == 2     \* writer statuses 0..MaxWriterError

(***************************************************************************)
(* Python values.                                                          *)
(***************************************************************************)
py_dict(f) == [t |-> "dict", v |-> f]
py_list(s) == [t |-> "list", v |-> s]
py_str(s) == [t |-> "str", v |-> s]

Returned(value) == [outcome |-> "returned", value |-> value]
Raised(error) == [outcome |-> "raised", error |-> error]
NotCalled == [outcome |-> "none"]

Range(s) == {s[i] : i \in DOMAIN s}

RECURSIVE Concat(_)
Concat(ss) == IF ss = <<>> THEN <<>> ELSE Head(ss) \o Concat(Tail(ss))

(***************************************************************************)
(* parse_annotation                                                        *)
(***************************************************************************)
names == <<"Detection", "Imagename", "Frame_Identifier", "TL_x", "TL_y", "BR_x",
           "BR_y", "detection_Confidence", "Target_Length", "Species", "Confidence">>

skiprows == {0, 1}

columns == <<"TL_x", "BR_y", "BR_x", "BR_y", "BR_x", "TL_y", "TL_x", "TL_y">>

JPG == <<".", "j", "p", "g">>

\* The missing value pandas puts in a cell whose CSV field is empty.
NaN == <<"NaN">>

ColumnIndex(n) == CHOOSE i \in DOMAIN names : names[i] = n

\* read_csv(skiprows=[0, 1]): the lines whose 0-based index is not skipped.
RECURSIVE skip_rows(_, _)
skip_rows(lines, i) ==
    IF lines = <<>> THEN <<>>
    ELSE (IF i \in skiprows THEN <<>> ELSE <<Head(lines)>>) \o skip_rows(Tail(lines), i + 1)

\* One cell of the frame: an empty Imagename field is read as missing.
read_field(n, field) ==
    IF n = "Imagename" /\ field = <<>> THEN NaN ELSE field

\* read_csv(names=names): each kept line becomes a row keyed by column name.
read_csv(lines) ==
    LET kept == skip_rows(lines, 0)
    IN  [i \in DOMAIN kept |->
            [n \in Range(names) |-> read_field(n, kept[i][ColumnIndex(n)])]]

\* A replacement of the trailing suffix only.
str_removesuffix(s, old, new) ==
    IF Len(s) >= Len(old) /\ SubSeq(s, Len(s) - Len(old) + 1, Len(s)) = old
    THEN SubSeq(s, 1, Len(s) - Len(old)) \o new
    ELSE s

\* str.replace(old, new) of Python: left to right, non-overlapping, one pass.
RECURSIVE str_replace(_, _, _)
str_replace(s, old, new) ==
    IF Len(s) < Len(old) THEN s
    ELSE IF SubSeq(s, 1, Len(old)) = old
         THEN new \o str_replace(SubSeq(s, Len(old) + 1, Len(s)), old, new)
         ELSE <<Head(s)>> \o str_replace(Tail(s), old, new)

\* Series.str.replace: applied to each string cell, a missing cell stays missing.
series_str_replace(cell, old, new) ==
    IF cell = NaN THEN NaN ELSE str_replace(cell, old, new)

\* The bare list of the values, without the mapping around it.
bbox_parser_bare_list(row, cols, name) ==
    py_list([i \in DOMAIN cols |-> row[cols[i]]])

bbox_parser(row, cols, name) ==
    py_dict([k \in {name} |-> py_list([i \in DOMAIN cols |-> row[cols[i]]])])

\* DataFrame.apply(bbox_parser, axis=1) stored as the column "bbox".
with_bbox(frame) ==
    [i \in DOMAIN frame |->
        [n \in (DOMAIN frame[i]) \cup {"bbox"} |->
            IF n = "bbox" THEN bbox_parser(frame[i], columns, "bbox") ELSE frame[i][n]]]

\* The rows of one group, in frame order.
group_rows(frame, key) == SelectSeq(frame, LAMBDA r : r.Imagename = key)

\* The column's values in reverse row order.
agg_list_reversed(rows, col) ==
    py_list([i \in DOMAIN rows |-> rows[Len(rows) + 1 - i][col]])

\* agg(list) of one column over the rows of a group.
agg_list(rows, col) == py_list([i \in DOMAIN rows |-> rows[i][col]])

\* groupby("Imagename").agg({...: list}).to_dict("index"): rows with a missing
\* key are left out of every group (groupby's default dropna).
groupby_agg(frame) ==
    LET keys == {frame[i].Imagename : i \in DOMAIN frame} \ {NaN}
    IN  py_dict([k \in keys |->
            py_dict([c \in {"bbox", "Species", "Confidence"} |->
                agg_list(group_rows(frame, k), c)])])

\* The .str accessor exists only on a column holding strings: a column whose
\* cells are all missing is a float column and the accessor raises.
parse_annotation(lines) ==
    LET imageannotation == read_csv(lines)
    IN  IF \A i \in DOMAIN imageannotation : imageannotation[i].Imagename = NaN
        THEN Raised("AttributeError")
        ELSE LET replaced == [i \in DOMAIN imageannotation |->
                     [imageannotation[i] EXCEPT
                         !.Imagename = series_str_replace(@, JPG, <<>>)]]
             IN  Returned(groupby_agg(with_bbox(replaced)))

(***************************************************************************)
(* The collaborators of the layer functions: the layer object, the file    *)
(* system, the vector file writer, OGR and the HTTP endpoint.              *)
(***************************************************************************)
PyNone == [t |-> "NoneType"]

\* QgsVectorFileWriter.NoError
NoError == 0

api_endpoint == py_str(<<"https://example.org/upload">>)

input_path == py_str(<<"input.shp">>)

is_vector(lyr) == lyr.t = "QgsVectorLayer"

\* The paths tempfile hands out, in the order it tries them.
TempStems == <<"tmp0", "tmp1", "tmp2">>

\* tempfile.NamedTemporaryFile(delete=False, suffix=...): a path that no file has.
temp_name(d, suffix) ==
    LET free == {i \in DOMAIN TempStems : <<TempStems[i], suffix>> \notin DOMAIN d}
        first == CHOOSE i \in free : \A j \in free : i <= j
    IN  <<TempStems[first], suffix>>

write_file(d, path, content) ==
    [p \in (DOMAIN d) \cup {path} |-> IF p = path THEN content ELSE d[p]]

\* A removal that was left out.
os_remove_skipped(d, path) == d

os_remove(d, path) == [p \in (DOMAIN d) \ {path} |-> d[p]]

\* NamedTemporaryFile(...) followed by close(): the file exists and is empty.
NamedTemporaryFile(d, suffix) ==
    LET path == temp_name(d, suffix)
    IN  [name |-> path, disk |-> write_file(d, path, <<>>)]

\* QgsVectorFileWriter.writeAsVectorFormat: the status the writer answers, and
\* the file written when that status is NoError.
writeAsVectorFormat(d, lyr, path, driver, status) ==
    [error |-> status,
     disk |-> IF status = NoError THEN write_file(d, path, <<driver, lyr.name>>) ELSE d]

\* Response.json(): the bodies the endpoint answers with and what they parse to.
response_json(text) ==
    IF text = <<"{", "}">> THEN Returned(py_dict(<<>>))
    ELSE IF text = <<"[", "]">> THEN Returned(py_list(<<>>))
    ELSE Raised("JSONDecodeError")

\* requests.post(url, data=..., headers=...)
requests_post(url, data, headers, e) ==
    [request |-> [url |-> url, data |-> data, headers |-> headers],
     response |-> [status_code |-> e.status_code, text |-> e.text]]

\* The tail shared by the upload functions: one POST, then the result by status.
post_and_report(url, geojson_data, e) ==
    LET headers == [k \in {"Content-Type"} |-> "application/json"]
        r == requests_post(url, geojson_data, headers, e)
        response == r.response
        parsed == response_json(response.text)
    IN  [sent |-> <<r.request>>,
         ret |-> IF response.status_code = 200
                 THEN IF parsed.outcome = "raised" THEN parsed
                      ELSE Returned(py_dict(
                              [success |-> py_str(<<"Layer successfully sent to the API">>),
                               response |-> parsed.value]))
                 ELSE Returned(py_dict(
                         [error |-> py_str(<<"Failed to send GeoJSON to API. Status code: ",
                                             response.status_code>>),
                          response |-> py_str(response.text)]))]

no_vector_layer == Returned(py_dict([error |-> py_str(<<"No active vector layer selected">>)]))

\* The layer methods the guard `not layer or layer.type() != VectorLayer` calls.
guard_touched(lyr) == IF lyr = PyNone THEN {} ELSE {"type"}

(***************************************************************************)
(* get_layer_info                                                          *)
(***************************************************************************)
fields_info(lyr) ==
    py_dict([n \in {lyr.fields[i].name : i \in DOMAIN lyr.fields} |->
        LET last == CHOOSE i \in DOMAIN lyr.fields :
                        /\ lyr.fields[i].name = n
                        /\ \A j \in DOMAIN lyr.fields : lyr.fields[j].name = n => j <= i
        IN  lyr.fields[last].typeName])

\* The mapping built for a layer that was supplied.
layer_info(lyr) ==
    LET common == [k \in {"name", "crs", "extent", "data_source"} |->
            CASE k = "name" -> lyr.name
              [] k = "crs" -> lyr.crs
              [] k = "extent" -> py_dict(lyr.extent)
              [] k = "data_source" -> lyr.source]
        typed == IF is_vector(lyr)
                 THEN [k \in {"type", "geometry_type", "fields", "feature_count"} |->
                          CASE k = "type" -> "vector"
                            [] k = "geometry_type" -> lyr.geometryType
                            [] k = "fields" -> fields_info(lyr)
                            [] k = "feature_count" -> lyr.featureCount]
                 ELSE IF lyr.t = "QgsRasterLayer"
                      THEN [k \in {"type"} |-> "raster"]
                      ELSE [k \in {} |-> "raster"]
    IN  [k \in (DOMAIN common) \cup (DOMAIN typed) |->
            IF k \in DOMAIN typed THEN typed[k] ELSE common[k]]

\* The layer methods get_layer_info calls on a layer that was supplied.
layer_info_touched(lyr) ==
    {"name", "type", "crs", "extent", "source"}
    \cup (IF is_vector(lyr) THEN {"geometryType", "fields", "featureCount"} ELSE {})

\* The guard of the export functions in place of `not layer`.
get_layer_info_vector_guard(lyr) ==
    IF lyr = PyNone \/ ~is_vector(lyr)
    THEN [ret |-> Returned(py_dict([error |-> py_str(<<"No active layer selected">>)])),
          touched |-> guard_touched(lyr)]
    ELSE [ret |-> Returned(py_dict(layer_info(lyr))), touched |-> layer_info_touched(lyr)]

get_layer_info(lyr) ==
    IF lyr = PyNone
    THEN [ret |-> Returned(py_dict([error |-> py_str(<<"No active layer selected">>)])),
          touched |-> {}]
    ELSE [ret |-> Returned(py_dict(layer_info(lyr))), touched |-> layer_info_touched(lyr)]

(***************************************************************************)
(* export_layer_to_geojson                                                 *)
(***************************************************************************)
export_layer_to_geojson(lyr, out_dir, d, e) ==
    IF lyr = PyNone \/ ~is_vector(lyr)
    THEN [ret |-> no_vector_layer, disk |-> d, temps |-> {}, sent |-> <<>>,
          touched |-> guard_touched(lyr)]
    ELSE LET output_file == out_dir.v \o <<"/", lyr.name, ".geojson">>
             w == writeAsVectorFormat(d, lyr, output_file, "GeoJSON", e.writer)
         IN  [ret |-> IF w.error = NoError
                      THEN Returned(py_dict([success |-> py_str(
                               <<"Layer exported successfully to ">> \o output_file)]))
                      ELSE Returned(py_dict([error |-> py_str(
                               <<"Failed to export layer. Error code: ", w.error>>)])),
              disk |-> w.disk, temps |-> {}, sent |-> <<>>,
              touched |-> {"type", "name"}]

(***************************************************************************)
(* send_layer_as_geojson                                                   *)
(***************************************************************************)
send_layer_as_geojson(lyr, url, d, e) ==
    IF lyr = PyNone \/ ~is_vector(lyr)
    THEN [ret |-> no_vector_layer, disk |-> d, temps |-> {}, sent |-> <<>>,
          touched |-> guard_touched(lyr)]
    ELSE LET temp_file == NamedTemporaryFile(d, ".geojson")
             w == writeAsVectorFormat(temp_file.disk, lyr, temp_file.name, "GeoJSON", e.writer)
             \* the writer's status is only printed; the file is read either way
             geojson_data == w.disk[temp_file.name]
             removed == os_remove(w.disk, temp_file.name)
             up == post_and_report(url, geojson_data, e)
         IN  [ret |-> up.ret, disk |-> removed, temps |-> {temp_file.name},
              sent |-> up.sent, touched |-> {"type", "crs"}]

(***************************************************************************)
(* send_layer_as_geojson_using_gdal_                                       *)
(***************************************************************************)
send_layer_as_geojson_using_gdal_(lyr, url, d, e) ==
    IF lyr = PyNone \/ ~is_vector(lyr)
    THEN [ret |-> no_vector_layer, disk |-> d, temps |-> {}, sent |-> <<>>,
          touched |-> guard_touched(lyr)]
    ELSE LET temp_file == NamedTemporaryFile(d, ".gpkg")
             w == writeAsVectorFormat(temp_file.disk, lyr, temp_file.name, "GPKG", e.writer)
             early(message) ==
                 [ret |-> Returned(py_dict([error |-> py_str(message)])),
                  disk |-> os_remove(w.disk, temp_file.name),
                  temps |-> {temp_file.name}, sent |-> <<>>, touched |-> {"type", "crs"}]
         IN  IF w.error # NoError
             THEN early(<<"Failed to export layer to GPKG. Error code: ", w.error>>)
             ELSE IF ~e.gpkg_driver
             THEN early(<<"GDAL does not support GeoPackage format">>)
             ELSE IF ~e.gpkg_opens
             THEN early(<<"Failed to open the GeoPackage file with OGR">>)
             ELSE LET geojson_temp_file == NamedTemporaryFile(w.disk, ".geojson")
                      both == {temp_file.name, geojson_temp_file.name}
                      \* ogr2ogr -f GeoJSON <geojson> <gpkg>, run through os.system
                      result == e.ogr2ogr
                      converted == IF result = 0
                                   THEN write_file(geojson_temp_file.disk,
                                                   geojson_temp_file.name,
                                                   <<"GeoJSON", lyr.name>>)
                                   ELSE geojson_temp_file.disk
                      cleaned == os_remove(os_remove(converted, temp_file.name),
                                           geojson_temp_file.name)
                  IN  IF result # 0
                      THEN [ret |-> Returned(py_dict([error |-> py_str(
                                <<"Failed to convert GeoPackage to GeoJSON using ogr2ogr">>)])),
                            disk |-> cleaned, temps |-> both, sent |-> <<>>,
                            touched |-> {"type", "crs"}]
                      ELSE LET geojson_data == converted[geojson_temp_file.name]
                               up == post_and_report(url, geojson_data, e)
                           IN  [ret |-> up.ret, disk |-> cleaned, temps |-> both,
                                sent |-> up.sent, touched |-> {"type", "crs"}]

(***************************************************************************)
(* convert_to_geojson_using_gdal                                           *)
(***************************************************************************)
\* uuid.uuid4().hex + ".geojson"
uuid_name == py_str(<<"uuid4hex", ".geojson">>)

convert_to_geojson_using_gdal(in_path, out_path, d, e) ==
    LET out == IF out_path = PyNone THEN uuid_name ELSE out_path
        nothing(value) ==
            [ret |-> Returned(value), disk |-> d, temps |-> {}, sent |-> <<>>, touched |-> {}]
    IN  IF ~e.input_opens
        THEN nothing(py_str(<<"Failed to open input file: ">> \o in_path.v))
        ELSE IF ~e.geojson_driver
        THEN nothing(py_str(<<"GDAL GeoJSON driver not found">>))
        ELSE IF ~e.output_created
        THEN nothing(py_str(<<"Failed to create output GeoJSON file: ">> \o out.v))
        ELSE LET created == write_file(d, out.v, <<>>)
                 \* every layer of the input is copied, then the data source is closed
                 copied == write_file(created, out.v, <<"GeoJSON">> \o in_path.v)
                 geojson_data == copied[out.v]
                 removed == os_remove(copied, out.v)
             IN  \* api_endpoint is no parameter, local or global of the module:
                 \* evaluating the arguments of requests.post raises NameError
                 [ret |-> Raised("NameError"), disk |-> removed, temps |-> {out.v},
                  sent |-> <<>>, touched |-> {}]

(***************************************************************************)
(* The inputs the model draws.                                             *)
(***************************************************************************)
\* The directory export_layer_to_geojson is given.
export_dir == py_str(<<"out">>)

VectorLayer ==
    [t |-> "QgsVectorLayer", name |-> "sites", geometryType |-> "Point",
     fields |-> <<[name |-> "id", typeName |-> "Integer"],
                  [name |-> "label", typeName |-> "String"]>>,
     featureCount |-> 3, crs |-> "EPSG:4326",
     extent |-> [xmin |-> 0, xmax |-> 10, ymin |-> 0, ymax |-> 5],
     source |-> "/data/sites.shp"]

RasterLayer ==
    [t |-> "QgsRasterLayer", name |-> "depth", crs |-> "EPSG:32619",
     extent |-> [xmin |-> 1, xmax |-> 2, ymin |-> 3, ymax |-> 4],
     source |-> "/data/depth.tif"]

MeshLayer ==
    [t |-> "QgsMeshLayer", name |-> "mesh", crs |-> "EPSG:4326",
     extent |-> [xmin |-> 0, xmax |-> 1, ymin |-> 0, ymax |-> 1],
     source |-> "/data/mesh.2dm"]

Layers == {PyNone, VectorLayer, RasterLayer, MeshLayer}

OutputPaths == {PyNone, py_str(<<"result.geojson">>)}

\* Two JSON bodies and a plain-text one.
Bodies == {<<"{", "}">>, <<"[", "]">>, <<"d", "o", "n", "e">>}

StatusCodes == {200, 201, 404}

Envs ==
    [writer : 0..MaxWriterError,
     gpkg_driver : BOOLEAN, gpkg_opens : BOOLEAN, ogr2ogr : {0, 256},
     status_code : StatusCodes, text : Bodies,
     input_opens : BOOLEAN, geojson_driver : BOOLEAN, output_created : BOOLEAN]

EmptyDisk == [p \in {} |-> <<>>]

\* The disk before the call: empty, or holding a file another program left.
Disks == {EmptyDisk, write_file(EmptyDisk, <<"tmp0", ".geojson">>, <<"other">>)}

Line(name, box, species, confidence) ==
    <<1, name, 0, box[1], box[2], box[3], box[4], 90, 0, species, confidence>>

SampleNames == {<<>>, <<"a">>, <<"a">> \o JPG, <<"b">>}

\* <<TL_x, TL_y, BR_x, BR_y>>
SampleBoxes == {<<0, 0, 10, 10>>, <<1, 2, 3, 4>>}

\* <<Species, Confidence>>
SampleLabels == {<<"tuna", 80>>, <<"shark", 95>>}

SampleLines ==
    {Line(n, b, l[1], l[2]) : n \in SampleNames, b \in SampleBoxes, l \in SampleLabels}

\* The two leading lines: comment lines, or lines shaped like data rows.
LeadingLines ==
    {<<<<"# metadata">>, <<"# metadata">>>>,
     <<Line(<<"z">> \o JPG, <<5, 5, 15, 15>>, "cod", 50),
       Line(<<"a">>, <<5, 5, 15, 15>>, "cod", 50)>>}

SeqsUpTo(S, n) == UNION {[1..k -> S] : k \in 1..n}

AnnotationFiles ==
    {leading \o rows : leading \in LeadingLines, rows \in SeqsUpTo(SampleLines, MaxRows)}

Pieces == {<<"a">>, JPG, <<".", "j">>, <<"p", "g">>}

AssembledNames == {Concat(ps) : ps \in SeqsUpTo(Pieces, MaxPieces)}

\* Two data rows that differ in everything but, possibly, the Imagename.
NameFiles ==
    {<<<<"# metadata">>, <<"# metadata">>,
       Line(x, <<0, 0, 10, 10>>, "tuna", 80), Line(y, <<1, 2, 3, 4>>, "shark", 95)>> :
        x \in AssembledNames, y \in AssembledNames}

(***************************************************************************)
(* The layer functions: one call from the ready state.                     *)
(***************************************************************************)
Init ==
    /\ pc = "ready"
    /\ call = "none"
    /\ layer \in Layers
    /\ output_path \in OutputPaths
    /\ env \in Envs
    /\ disk \in Disks
    /\ ret = NotCalled
    /\ temps = {}
    /\ sent = <<>>
    /\ touched = {}
    /\ annotation_file = <<>>
    /\ annotations_by_image = NotCalled

Finish(name, r) ==
    /\ call' = name
    /\ ret' = r.ret
    /\ disk' = r.disk
    /\ temps' = r.temps
    /\ sent' = r.sent
    /\ touched' = r.touched
    /\ pc' = "done"
    /\ UNCHANGED <<layer, output_path, env, annotation_file, annotations_by_image>>

GetLayerInfo ==
    /\ pc = "ready"
    /\ LET r == get_layer_info(layer)
       IN  Finish("get_layer_info",
                  [ret |-> r.ret, disk |-> disk, temps |-> {}, sent |-> <<>>,
                   touched |-> r.touched])

ExportLayerToGeojson ==
    /\ pc = "ready"
    /\ Finish("export_layer_to_geojson", export_layer_to_geojson(layer, export_dir, disk, env))

SendLayerAsGeojson ==
    /\ pc = "ready"
    /\ Finish("send_layer_as_geojson", send_layer_as_geojson(layer, api_endpoint, disk, env))

SendLayerAsGeojsonUsingGdal ==
    /\ pc = "ready"
    /\ Finish("send_layer_as_geojson_using_gdal_",
              send_layer_as_geojson_using_gdal_(layer, api_endpoint, disk, env))

ConvertToGeojsonUsingGdal ==
    /\ pc = "ready"
    /\ Finish("convert_to_geojson_using_gdal",
              convert_to_geojson_using_gdal(input_path, output_path, disk, env))

Next ==
    \/ GetLayerInfo
    \/ ExportLayerToGeojson
    \/ SendLayerAsGeojson
    \/ SendLayerAsGeojsonUsingGdal
    \/ ConvertToGeojsonUsingGdal

Spec == Init /\ [][Next]_vars

(***************************************************************************)
(* parse_annotation applied to an annotation file.                         *)
(***************************************************************************)
InitIdle ==
    /\ pc = "ready"
    /\ call = "none"
    /\ layer = PyNone
    /\ output_path = PyNone
    /\ env = CHOOSE e \in Envs : TRUE
    /\ disk = EmptyDisk
    /\ ret = NotCalled
    /\ temps = {}
    /\ sent = <<>>
    /\ touched = {}
    /\ annotations_by_image = NotCalled

InitParse == InitIdle /\ annotation_file \in AnnotationFiles

InitNames == InitIdle /\ annotation_file \in NameFiles

ParseAnnotation ==
    /\ pc = "ready"
    /\ annotations_by_image' = parse_annotation(annotation_file)
    /\ pc' = "done"
    /\ UNCHANGED <<annotation_file, call, layer, output_path, env, ret, disk, temps,
                   sent, touched>>

NextParse == ParseAnnotation

SpecParse == InitParse /\ [][NextParse]_vars

SpecNames == InitNames /\ [][NextParse]_vars

(***************************************************************************)
(* What the properties of parse_annotation are stated against: the source  *)
(* lines themselves.                                                       *)
(***************************************************************************)
\* All rows after the first two.
DataRows == SubSeq(annotation_file, 3, Len(annotation_file))

\* The positions at which '.jpg' occurs in x.
Occurrences(x) == {p \in 1..(Len(x) - Len(JPG) + 1) : SubSeq(x, p, p + Len(JPG) - 1) = JPG}

ContainsJpg(x) == Occurrences(x) # {}

\* x without the characters of any occurrence of '.jpg' in it.
WithoutJpg(x) ==
    LET covered == {i \in DOMAIN x : \E p \in Occurrences(x) : p <= i /\ i < p + Len(JPG)}
        kept == SelectSeq([i \in DOMAIN x |-> i], LAMBDA i : i \notin covered)
    IN  [j \in DOMAIN kept |-> x[kept[j]]]

\* x with one occurrence of '.jpg' taken out, in every way.
DeleteOne(x) ==
    {SubSeq(x, 1, p - 1) \o SubSeq(x, p + Len(JPG), Len(x)) : p \in Occurrences(x)}

\* Two names that differ only by an occurrence of '.jpg'.
DiffersByJpg(x, y) == y \in DeleteOne(x) \/ x \in DeleteOne(y)

\* The data rows whose image identifier is k, in source order.
RowsOf(k) == SelectSeq(DataRows, LAMBDA l : WithoutJpg(l[2]) = k)

\* The same, for the rows whose Imagename field is not empty.
NamedRowsOf(k) == SelectSeq(DataRows, LAMBDA l : l[2] # <<>> /\ WithoutJpg(l[2]) = k)

\* [TL_x, BR_y, BR_x, BR_y, BR_x, TL_y, TL_x, TL_y] of a source line.
BoxOf(l) == <<l[4], l[7], l[6], l[7], l[6], l[5], l[4], l[5]>>

Parsed == pc = "done" /\ annotations_by_image.outcome = "returned"

Groups == annotations_by_image.value.v

(***************************************************************************)
(* C1: the keys of the mapping are exactly the image identifiers of the    *)
(* data rows after '.jpg' removal, no row is dropped, and the three lists  *)
(* of a key have the length of the number of rows with that identifier.    *)
(***************************************************************************)
C1_EveryRowInOneGroup ==
    pc = "done" =>
        /\ annotations_by_image.outcome = "returned"
        /\ DOMAIN Groups = {WithoutJpg(DataRows[i][2]) : i \in DOMAIN DataRows}
        /\ \A k \in DOMAIN Groups :
              /\ Len(Groups[k].v.bbox.v) = Len(RowsOf(k))
              /\ Len(Groups[k].v.Species.v) = Len(RowsOf(k))
              /\ Len(Groups[k].v.Confidence.v) = Len(RowsOf(k))

\* C1 restricted: the same holds of every file none of whose Imagename fields
\* is empty.
C1_WhenEveryRowIsNamed ==
    (\A i \in DOMAIN DataRows : DataRows[i][2] # <<>>) => C1_EveryRowInOneGroup

(***************************************************************************)
(* C2 as stated: the entry a row contributes to its group's bbox list is   *)
(* the list of 8 numbers [TL_x, BR_y, BR_x, BR_y, BR_x, TL_y, TL_x, TL_y]. *)
(***************************************************************************)
C2_EntryIsTheEightNumbers ==
    Parsed =>
        \A k \in DOMAIN Groups :
            /\ Len(Groups[k].v.bbox.v) = Len(NamedRowsOf(k))
            /\ \A j \in DOMAIN Groups[k].v.bbox.v :
                  /\ Groups[k].v.bbox.v[j].t = "list"
                  /\ Groups[k].v.bbox.v[j].v = BoxOf(NamedRowsOf(k)[j])

(***************************************************************************)
(* C2 amended: the entry a row contributes to its group's bbox list is the *)
(* one-key mapping {"bbox": [TL_x, BR_y, BR_x, BR_y, BR_x, TL_y, TL_x,     *)
(* TL_y]} that bbox_parser returns, whatever the row's values.             *)
(***************************************************************************)
C2_EntryIsBboxMapping ==
    Parsed =>
        \A k \in DOMAIN Groups :
            /\ Len(Groups[k].v.bbox.v) = Len(NamedRowsOf(k))
            /\ \A j \in DOMAIN Groups[k].v.bbox.v :
                  /\ Groups[k].v.bbox.v[j].t = "dict"
                  /\ DOMAIN Groups[k].v.bbox.v[j].v = {"bbox"}
                  /\ Groups[k].v.bbox.v[j].v.bbox = py_list(BoxOf(NamedRowsOf(k)[j]))

\* C2 witness: a row of four different coordinates has contributed its entry.
C2_Witness ==
    /\ Parsed
    /\ \E k \in DOMAIN Groups : \E j \in DOMAIN Groups[k].v.bbox.v :
          Groups[k].v.bbox.v[j].v.bbox.v = <<1, 4, 3, 4, 3, 2, 1, 2>>

(***************************************************************************)
(* C3: within a group the entries follow the source order of their rows in *)
(* each of the three lists, and the i-th entries of the three lists come   *)
(* from the same source row.                                               *)
(***************************************************************************)
C3_SourceOrderKept ==
    Parsed =>
        \A k \in DOMAIN Groups :
            LET rows == NamedRowsOf(k)
            IN  /\ Groups[k].v.Species = py_list([j \in DOMAIN rows |-> rows[j][10]])
                /\ Groups[k].v.Confidence = py_list([j \in DOMAIN rows |-> rows[j][11]])
                /\ Len(Groups[k].v.bbox.v) = Len(rows)
                /\ \A j \in DOMAIN rows : Groups[k].v.bbox.v[j].v.bbox.v = BoxOf(rows[j])

\* C3 witness: a group of two different rows that another group's row separates in the source.
C3_Witness ==
    /\ Parsed
    /\ Len(DataRows) = 3
    /\ WithoutJpg(DataRows[1][2]) = WithoutJpg(DataRows[3][2])
    /\ DataRows[1][2] # <<>> /\ DataRows[2][2] # <<>> /\ DataRows[3][2] # <<>>
    /\ WithoutJpg(DataRows[2][2]) # WithoutJpg(DataRows[1][2])
    /\ DataRows[1][10] # DataRows[3][10]
    /\ BoxOf(DataRows[1]) # BoxOf(DataRows[3])
    /\ Groups[WithoutJpg(DataRows[1][2])].v.Species.v = <<DataRows[1][10], DataRows[3][10]>>

\* The keys are the names without any of their occurrences of '.jpg', and a
\* name without '.jpg' is a key as it stands.
JpgRemovedEverywhere ==
    pc = "done" =>
        /\ annotations_by_image.outcome = "returned"
        /\ DOMAIN Groups = {WithoutJpg(DataRows[i][2]) : i \in DOMAIN DataRows}
        /\ \A i \in DOMAIN DataRows :
              ~ContainsJpg(DataRows[i][2]) => DataRows[i][2] \in DOMAIN Groups

(***************************************************************************)
(* C9 as stated: every occurrence of '.jpg' is removed from the Imagename, *)
(* wherever it occurs; a name without '.jpg' is left unchanged; and two    *)
(* rows whose names differ only by occurrences of '.jpg' fall in the same  *)
(* group.                                                                  *)
(***************************************************************************)
C9_SameGroupWhenDifferByJpg ==
    /\ JpgRemovedEverywhere
    /\ pc = "done" =>
          \A i, j \in DOMAIN DataRows :
              DiffersByJpg(DataRows[i][2], DataRows[j][2]) => Cardinality(DOMAIN Groups) = 1

(***************************************************************************)
(* C9 amended: every occurrence of '.jpg' in the Imagename is removed in   *)
(* one pass, wherever it occurs; a name without '.jpg' is left unchanged;  *)
(* two rows whose names differ only by an occurrence of '.jpg' fall in the *)
(* same group provided neither normalized identifier still contains        *)
(* '.jpg' ('.j.jpgpg' becomes '.jpg', which a second pass would remove).   *)
(***************************************************************************)
C9_SameGroupWhenNoJpgLeft ==
    /\ JpgRemovedEverywhere
    /\ pc = "done" =>
          \A i, j \in DOMAIN DataRows :
              /\ DiffersByJpg(DataRows[i][2], DataRows[j][2])
              /\ \A k \in DOMAIN Groups : ~ContainsJpg(k)
              => Cardinality(DOMAIN Groups) = 1

\* C9 witness: 'a.jpg.jpg' and 'a.jpga' have been normalized to 'a' and 'aa'.
C9_Witness ==
    /\ Parsed
    /\ DataRows[1][2] = <<"a">> \o JPG \o JPG
    /\ DataRows[2][2] = <<"a">> \o JPG \o <<"a">>
    /\ DOMAIN Groups = {<<"a">>, <<"a", "a">>}

(***************************************************************************)
(* What the properties of the layer functions are stated against.          *)
(***************************************************************************)
UploadFunctions ==
    {"send_layer_as_geojson", "send_layer_as_geojson_using_gdal_",
     "convert_to_geojson_using_gdal"}

WriterFunctions ==
    {"export_layer_to_geojson", "send_layer_as_geojson",
     "send_layer_as_geojson_using_gdal_"}

ExportFunctions == UploadFunctions \cup WriterFunctions

Called(fs) == pc = "done" /\ call \in fs

ReturnedDict == ret.outcome = "returned" /\ ret.value.t = "dict"

ErrorMapping(message) == Returned(py_dict([error |-> py_str(message)]))

(***************************************************************************)
(* C4: every temporary file an export/upload call created is gone when    *)
(* the call ends, whatever the layer, the writer status, the drivers, the  *)
(* open result, the ogr2ogr exit code and the HTTP status were, and        *)
(* whether the call returned or raised.                                    *)
(***************************************************************************)
C4_TempFilesDeleted ==
    Called(UploadFunctions) => temps \cap DOMAIN disk = {}

\* C4 witness: ogr2ogr failed after both temporary files had been created.
C4_Witness ==
    /\ Called({"send_layer_as_geojson_using_gdal_"})
    /\ Cardinality(temps) = 2
    /\ env.ogr2ogr # 0
    /\ ReturnedDict /\ "error" \in DOMAIN ret.value.v

(***************************************************************************)
(* C5: in the functions that call the writer, a status other than NoError  *)
(* stops the function, which returns {"error": "Failed to export layer.    *)
(* Error code: <code>"} with that status and uploads nothing.              *)
(***************************************************************************)
C5_WriterErrorStopsTheCall ==
    Called(WriterFunctions) /\ is_vector(layer) /\ env.writer # NoError =>
        /\ ret = ErrorMapping(<<"Failed to export layer. Error code: ", env.writer>>)
        /\ sent = <<>>

(***************************************************************************)
(* C6: the export and upload functions never raise; the result is a        *)
(* mapping holding exactly one of the keys "error" and "success".          *)
(***************************************************************************)
C6_AlwaysAnErrorOrSuccessMapping ==
    Called(ExportFunctions) =>
        /\ ReturnedDict
        /\ ("error" \in DOMAIN ret.value.v) # ("success" \in DOMAIN ret.value.v)

\* The POST was issued once, with the JSON content type.
PostedOnce ==
    /\ Len(sent) = 1
    /\ sent[1].headers = [k \in {"Content-Type"} |-> "application/json"]

\* The error mapping carrying the status code and the raw body text.
TransportError ==
    Returned(py_dict(
        [error |-> py_str(<<"Failed to send GeoJSON to API. Status code: ", env.status_code>>),
         response |-> py_str(env.text)]))

\* The success mapping carrying the parsed body.
SuccessWithParsedBody ==
    /\ ReturnedDict
    /\ DOMAIN ret.value.v = {"success", "response"}
    /\ response_json(env.text).outcome = "returned"
    /\ ret.value.v.response = response_json(env.text).value

(***************************************************************************)
(* C7 as stated: once the endpoint has answered the POST, status 200 gives *)
(* a mapping with "success" and the parsed JSON body as "response", any    *)
(* other status gives the error mapping with the status code and the raw   *)
(* body text; the POST carries Content-Type: application/json and is       *)
(* issued once.                                                            *)
(***************************************************************************)
C7_ResultFollowsStatus ==
    Called(UploadFunctions) /\ sent # <<>> =>
        /\ PostedOnce
        /\ IF env.status_code = 200 THEN SuccessWithParsedBody ELSE ret = TransportError

(***************************************************************************)
(* C7 restricted: the claim holds of every answer but a 200 whose body is  *)
(* not valid JSON; there Response.json() raises out of the call, which     *)
(* returns no mapping at all.                                              *)
(***************************************************************************)
C7_HoldsButForNonJsonSuccessBody ==
    Called(UploadFunctions) /\ sent # <<>> =>
        /\ PostedOnce
        /\ IF env.status_code # 200 THEN ret = TransportError
           ELSE IF response_json(env.text).outcome = "returned" THEN SuccessWithParsedBody
           ELSE ret = Raised("JSONDecodeError")

(***************************************************************************)
(* C8: convert_to_geojson_using_gdal returns the path of the GeoJSON file  *)
(* it produced, which exists after the call, when the input opens, the     *)
(* driver exists and the output is created; otherwise it returns an error  *)
(* message and produces no file.                                           *)
(***************************************************************************)
C8_ReturnsPathOrMessage ==
    Called({"convert_to_geojson_using_gdal"}) =>
        IF env.input_opens /\ env.geojson_driver /\ env.output_created
        THEN LET out == IF output_path = PyNone THEN uuid_name ELSE output_path
             IN  ret = Returned(out) /\ out.v \in DOMAIN disk
        ELSE /\ ret.outcome = "returned"
             /\ ret.value.t = "str"
             /\ temps = {}

(***************************************************************************)
(* C10: get_layer_info of no layer returns exactly {"error": "No active    *)
(* layer selected"} and reads nothing of the layer; of a layer it returns  *)
(* a mapping without "error" that carries name, crs, extent and            *)
(* data_source, and geometry_type, fields and feature_count exactly when   *)
(* the layer is a vector layer.                                            *)
(***************************************************************************)
C10_LayerInfoOrNoLayerError ==
    Called({"get_layer_info"}) =>
        IF layer = PyNone
        THEN ret = ErrorMapping(<<"No active layer selected">>) /\ touched = {}
        ELSE /\ ReturnedDict
             /\ "error" \notin DOMAIN ret.value.v
             /\ {"name", "crs", "extent", "data_source"} \subseteq DOMAIN ret.value.v
             /\ ret.value.v.name = layer.name
             /\ ret.value.v.crs = layer.crs
             /\ ret.value.v.extent = py_dict(layer.extent)
             /\ ret.value.v.data_source = layer.source
             /\ \A k \in {"geometry_type", "fields", "feature_count"} :
                   k \in DOMAIN ret.value.v <=> is_vector(layer)

\* C10 witness: get_layer_info was called without a layer.
C10_Witness ==
    /\ Called({"get_layer_info"})
    /\ layer = PyNone
    /\ ReturnedDict /\ DOMAIN ret.value.v = {"error"}

====
